---- MODULE Spec2Model ----
(***************************************************************************)
(* Model of the tutor suite glue layer:                                    *)
(*   - the relay endpoint POST /api/tutor                                  *)
(*   - the tutor page and its ask() handler                                *)
(*   - the profile store adapter (getUserProfile, saveUserProfile)         *)
(* JavaScript values are tagged records; JSON text is a token sequence.    *)
(***************************************************************************)
EXTENDS Integers, Sequences, FiniteSets, TLC

VARIABLES
    \* relay endpoint, one invocation of POST
    rpc,        \* position in POST: "ready", "reqJson", "fetch", "resJson", "done"
    rReq,       \* text of the incoming request body
    rBody,      \* const body = await req.json()
    rCalls,     \* downstream fetch calls issued by this invocation
    rDown,      \* outcome of the downstream fetch
    rData,      \* const data = await response.json()
    rResp,      \* the NextResponse returned to the caller
    \* tutor page
    level, q, out, loading,   \* the four useState cells
    view,       \* level, q and loading as captured by the last render of Page
    asks,       \* invocations of ask() past their first await, in issue order
    sent,       \* number of requests to /api/tutor issued so far
    \* profile store
    docs,       \* collection "users": uid -> document snapshot
    lastCall,   \* the last adapter call, the store operations it issued, its outcome
    prevDocs    \* the collection as it was before the last adapter call

relayVars == <<rpc, rReq, rBody, rCalls, rDown, rData, rResp>>
pageVars  == <<level, q, out, loading, view, asks, sent>>
storeVars == <<docs, lastCall, prevDocs>>
vars      == <<relayVars, pageVars, storeVars>>

-----------------------------------------------------------------------------
(* JavaScript values *)

Undefined == [t |-> "undefined"]
Null      == [t |-> "null"]
Bool(b)   == [t |-> "bool", bool |-> b]
Num(n)    == [t |-> "num", num |-> n]
Str(s)    == [t |-> "str", str |-> s]
Arr(a)    == [t |-> "arr", arr |-> a]
Obj(m)    == [t |-> "obj", obj |-> m]     \* m: members in insertion order
Member(k, v) == [key |-> k, val |-> v]

\* ToBoolean: undefined, null, false, 0 and "" are falsy
Truthy(v) ==
    CASE v.t = "undefined" -> FALSE
      [] v.t = "null"      -> FALSE
      [] v.t = "bool"      -> v.bool
      [] v.t = "num"       -> v.num # 0
      [] v.t = "str"       -> v.str # ""
      [] OTHER             -> TRUE

\* property read v.k; undefined when absent or when v has no such member
Get(v, k) ==
    IF v.t = "obj" /\ \E i \in 1..Len(v.obj) : v.obj[i].key = k
    THEN v.obj[CHOOSE i \in 1..Len(v.obj) : v.obj[i].key = k].val
    ELSE Undefined

\* property write on a member list: overwrite in place or append
Put(m, k, v) ==
    IF \E i \in 1..Len(m) : m[i].key = k
    THEN [i \in 1..Len(m) |-> IF m[i].key = k THEN Member(k, v) ELSE m[i]]
    ELSE Append(m, Member(k, v))

-----------------------------------------------------------------------------
(* JSON text: a sequence of tokens *)

P(s) == [k |-> "punct", s |-> s]
L(s) == [k |-> "lit", s |-> s]
N(s) == [k |-> "num", s |-> s]
S(s) == [k |-> "str", s |-> s]
X(s) == [k |-> "other", s |-> s]      \* anything that is no JSON token

\* value of a number token, and the text JSON.stringify gives a number
NumberOf(s) ==
    CASE s = "0"   -> 0
      [] s = "1"   -> 1
      [] s = "2"   -> 2
      [] s = "2.0" -> 2
      [] s = "20e-1" -> 2
      [] s = "7"   -> 7
NumberText(n) == ToString(n)

ParseFail == [ok |-> FALSE, val |-> Undefined, rest |-> <<>>]
ParseOk(v, rest) == [ok |-> TRUE, val |-> v, rest |-> rest]

RECURSIVE ParseValue(_), ParseElements(_, _), ParseMembers(_, _)
ParseValue(ts) ==
    IF ts = <<>> THEN ParseFail
    ELSE LET h == Head(ts) rest == Tail(ts) IN
         CASE h = L("null")  -> ParseOk(Null, rest)
           [] h = L("true")  -> ParseOk(Bool(TRUE), rest)
           [] h = L("false") -> ParseOk(Bool(FALSE), rest)
           [] h.k = "num"    -> ParseOk(Num(NumberOf(h.s)), rest)
           [] h.k = "str"    -> ParseOk(Str(h.s), rest)
           [] h = P("[")     ->
                IF rest # <<>> /\ Head(rest) = P("]")
                THEN ParseOk(Arr(<<>>), Tail(rest))
                ELSE ParseElements(rest, <<>>)
           [] h = P("{")     ->
                IF rest # <<>> /\ Head(rest) = P("}")
                THEN ParseOk(Obj(<<>>), Tail(rest))
                ELSE ParseMembers(rest, <<>>)
           [] OTHER          -> ParseFail
ParseElements(ts, acc) ==
    LET r == ParseValue(ts) IN
    IF ~r.ok \/ r.rest = <<>> THEN ParseFail
    ELSE CASE Head(r.rest) = P(",") -> ParseElements(Tail(r.rest), Append(acc, r.val))
           [] Head(r.rest) = P("]") -> ParseOk(Arr(Append(acc, r.val)), Tail(r.rest))
           [] OTHER                 -> ParseFail
ParseMembers(ts, acc) ==
    IF Len(ts) < 3 \/ ts[1].k # "str" \/ ts[2] # P(":") THEN ParseFail
    ELSE LET r == ParseValue(SubSeq(ts, 3, Len(ts))) IN
         IF ~r.ok \/ r.rest = <<>> THEN ParseFail
         ELSE CASE Head(r.rest) = P(",") ->
                     ParseMembers(Tail(r.rest), Put(acc, ts[1].s, r.val))
                [] Head(r.rest) = P("}") ->
                     ParseOk(Obj(Put(acc, ts[1].s, r.val)), Tail(r.rest))
                [] OTHER -> ParseFail

\* JSON.parse / Body.json(): the whole text must be one value
JSONParse(text) ==
    LET r == ParseValue(text) IN
    IF r.ok /\ r.rest = <<>> THEN [ok |-> TRUE, val |-> r.val]
    ELSE [ok |-> FALSE, val |-> Undefined]

RECURSIVE Stringify(_), StringifyElements(_), StringifyMembers(_, _)
Stringify(v) ==
    CASE v.t = "null" -> <<L("null")>>
      [] v.t = "bool" -> <<L(IF v.bool THEN "true" ELSE "false")>>
      [] v.t = "num"  -> <<N(NumberText(v.num))>>
      [] v.t = "str"  -> <<S(v.str)>>
      [] v.t = "arr"  -> <<P("[")>> \o StringifyElements(v.arr) \o <<P("]")>>
      [] v.t = "obj"  -> <<P("{")>> \o StringifyMembers(v.obj, TRUE) \o <<P("}")>>
      [] OTHER        -> <<>>
StringifyElements(a) ==
    IF a = <<>> THEN <<>>
    ELSE (IF Head(a).t = "undefined" THEN <<L("null")>> ELSE Stringify(Head(a)))
         \o (IF Len(a) > 1 THEN <<P(",")>> ELSE <<>>)
         \o StringifyElements(Tail(a))
StringifyMembers(m, first) ==
    IF m = <<>> THEN <<>>
    ELSE IF Head(m).val.t = "undefined" THEN StringifyMembers(Tail(m), first)
         ELSE (IF first THEN <<>> ELSE <<P(",")>>)
              \o <<S(Head(m).key), P(":")>> \o Stringify(Head(m).val)
              \o StringifyMembers(Tail(m), FALSE)

\* JSON.stringify
JSONStringify(v) == Stringify(v)

-----------------------------------------------------------------------------
(* Relay endpoint: export async function POST(req) *)

DownstreamUrl == "http://127.0.0.1:8000/ask"
ErrorMessage  == "Failed to connect to tutor backend"
DefaultStatus == 200
ErrorStatus   == 500

NoResponse == [status |-> 0, contentType |-> "", body |-> <<>>]
Rejected   == [settled |-> "rejected", status |-> 0, text |-> <<>>]
Answered(s, text) == [settled |-> "fulfilled", status |-> s, text |-> text]
Pending    == [settled |-> "pending", status |-> 0, text |-> <<>>]

\* request bodies a caller may send
ReqTexts == {
    <<P("{"), S("message"), P(":"), S("2*x=4"), P(","),
      S("level"), P(":"), S("beginner"), P("}")>>,
    <<P("{"), S("n"), P(":"), N("2.0"), P(","), S("message"), P(":"), S(""), P("}")>>,
    <<P("["), S("a"), P(","), L("null"), P("]")>>,
    <<S("hi")>>,
    <<P("{"), S("message"), P(":")>>,
    <<>> }

\* bodies the downstream backend may answer with
DownTexts == {
    <<P("{"), S("final_answer"), P(":"), S("x=2"), P("}")>>,
    <<P("{"), S("error"), P(":"), S("bad input"), P(","), S("hint"), P(":"), S("try"),
      P(","), S("steps"), P(":"), P("["), S("s1"), P("]"), P("}")>>,
    <<P("{"), S("final_answer"), P(":"), S("x=2"), P(","), S("steps"), P(":"),
      P("["), S("a"), P(","), S("b"), P("]"), P(","), S("n"), P(":"), N("20e-1"), P("}")>>,
    <<P("{"), S("detail"), P(":"), P("{"), S("a"), P(":"), N("1"), P("}"), P(","),
      S("detail"), P(":"), L("false"), P("}")>>,
    <<L("null")>>,
    <<X("<html>")>>,
    <<P("{"), S("final_answer"), P(":"), S("x=2"), P("}"), P("}")>> }

\* statuses the downstream backend may answer with
DownStatuses == {200, 400, 500}

\* NextResponse.json(data, init)
NextResponseJson(data, status) ==
    [status |-> status, contentType |-> "application/json", body |-> JSONStringify(data)]

\* variant of the downstream call: the headers option left out
DownstreamFetchNoHeaders(body) ==
    [url |-> DownstreamUrl, method |-> "POST", contentType |-> "text/plain;charset=UTF-8",
     body |-> JSONStringify(body)]

\* fetch("http://127.0.0.1:8000/ask", {method, headers, body: JSON.stringify(body)})
DownstreamFetch(body) ==
    [url |-> DownstreamUrl, method |-> "POST", contentType |-> "application/json",
     body |-> JSONStringify(body)]

\* variants of the success response: the downstream status passed on, the data wrapped
SuccessResponseForwardStatus(data, down) == NextResponseJson(data, down.status)
SuccessResponseWrapped(data, down) ==
    NextResponseJson(Obj(<<Member("data", data)>>), DefaultStatus)

\* return NextResponse.json(data)
SuccessResponse(data, down) == NextResponseJson(data, DefaultStatus)

\* variant of the catch response: the status option left out
CatchResponseNoStatus ==
    NextResponseJson(Obj(<<Member("error", Str(ErrorMessage))>>), DefaultStatus)

\* catch (error) { return NextResponse.json({error: ...}, {status: 500}) }
CatchResponse == NextResponseJson(Obj(<<Member("error", Str(ErrorMessage))>>), ErrorStatus)

\* the route is invoked with a request
RelayInvoke(text) ==
    /\ rpc = "ready"
    /\ rpc' = "reqJson"
    /\ rReq' = text
    /\ UNCHANGED <<rBody, rCalls, rDown, rData, rResp, pageVars, storeVars>>

\* const body = await req.json(); on success the downstream fetch is issued
RelayReqJson ==
    /\ rpc = "reqJson"
    /\ LET r == JSONParse(rReq) IN
       IF r.ok
       THEN /\ rBody' = r.val
            /\ rCalls' = Append(rCalls, DownstreamFetch(r.val))
            /\ rDown' = Pending
            /\ rpc' = "fetch"
            /\ UNCHANGED rResp
       ELSE /\ rResp' = CatchResponse
            /\ rpc' = "done"
            /\ UNCHANGED <<rBody, rCalls, rDown>>
    /\ UNCHANGED <<rReq, rData, pageVars, storeVars>>

\* the downstream fetch rejects: control goes to the catch block
RelayFetchRejects ==
    /\ rpc = "fetch"
    /\ rDown' = Rejected
    /\ rResp' = CatchResponse
    /\ rpc' = "done"
    /\ UNCHANGED <<rReq, rBody, rCalls, rData, pageVars, storeVars>>

\* the downstream fetch resolves with a response of any status
RelayFetchResolves(s, text) ==
    /\ rpc = "fetch"
    /\ rDown' = Answered(s, text)
    /\ rpc' = "resJson"
    /\ UNCHANGED <<rReq, rBody, rCalls, rData, rResp, pageVars, storeVars>>

\* const data = await response.json(); return NextResponse.json(data)
RelayResJson ==
    /\ rpc = "resJson"
    /\ LET r == JSONParse(rDown.text) IN
       IF r.ok
       THEN /\ rData' = r.val
            /\ rResp' = SuccessResponse(r.val, rDown)
       ELSE /\ rResp' = CatchResponse
            /\ UNCHANGED rData
    /\ rpc' = "done"
    /\ UNCHANGED <<rReq, rBody, rCalls, rDown, pageVars, storeVars>>

\* the invocation is over; the next one starts from nothing
RelayReturn ==
    /\ rpc = "done"
    /\ rpc' = "ready"
    /\ rReq' = <<>>
    /\ rBody' = Undefined
    /\ rCalls' = <<>>
    /\ rDown' = Pending
    /\ rData' = Undefined
    /\ rResp' = NoResponse
    /\ UNCHANGED <<pageVars, storeVars>>

RelayNext ==
    \/ \E text \in ReqTexts : RelayInvoke(text)
    \/ RelayReqJson
    \/ RelayFetchRejects
    \/ \E s \in DownStatuses, text \in DownTexts : RelayFetchResolves(s, text)
    \/ RelayResJson
    \/ RelayReturn

-----------------------------------------------------------------------------
(* Tutor page: export default function Page() *)

MaxAsks == 2      \* submissions explored

Levels == {"beginner", "intermediate", "advanced"}
Inputs == {"", " ", "2*x=4"}

\* String.prototype.trim on the inputs explored
Trim(s) == IF s = " " THEN "" ELSE s

\* bodies /api/tutor may answer the page with
ReplyTexts == {
    <<P("{"), S("final_answer"), P(":"), S("x=2"), P(","), S("steps"), P(":"),
      P("["), S("a"), P(","), S("b"), P("]"), P(","), S("check"), P(":"), S("ok"), P("}")>>,
    <<P("{"), S("error"), P(":"), S("bad input"), P(","), S("hint"), P(":"), S("try"),
      P(","), S("steps"), P(":"), P("["), S("s1"), P("]"), P(","),
      S("final_answer"), P(":"), S("x=2"), P("}")>>,
    <<P("{"), S("error"), P(":"), S(""), P(","), S("next_practice"), P(":"),
      P("["), S("p1"), P("]"), P("}")>>,
    <<P("{"), S("error"), P(":"), S("Failed to connect to tutor backend"), P("}")>>,
    <<L("null")>>,
    <<X("<html>")>> }

\* res.json() on each of these bodies (JSONParse, tabulated once)
ReplyJson == [text \in ReplyTexts |-> JSONParse(text)]

\* what the handlers of a render close over
Snapshot(l, qq, ld) == [level |-> l, q |-> qq, loading |-> ld]

\* const canAsk = useMemo(() => q.trim().length > 0 && !loading, [q, loading])
canAsk(v) == Trim(v.q) # "" /\ ~v.loading

\* if (!q.trim() || loading) return;
AskReturnsEarly(v) == Trim(v.q) = "" \/ v.loading

\* body: JSON.stringify({ message: q, level })
AskBody(v) ==
    JSONStringify(Obj(<<Member("message", Str(v.q)), Member("level", Str(v.level))>>))

\* v?.length is truthy
HasLength(v) ==
    CASE v.t = "arr" -> Len(v.arr) > 0
      [] v.t = "str" -> v.str # ""
      [] OTHER       -> FALSE

ErrorElements == {"errorTitle", "errorText", "hint"}
SolutionElements ==
    {"final_answer", "detected_topic", "level_used", "method", "steps", "check", "practice"}

\* variant of the section: the solution is chosen whenever an answer is present
RenderAnswerFirst(o) ==
    IF ~Truthy(o) THEN {"placeholder"}
    ELSE IF Truthy(Get(o, "final_answer")) THEN {"final_answer"}
    ELSE IF Truthy(Get(o, "error")) THEN {"errorTitle", "errorText"}
    ELSE {"final_answer"}

\* the <section> of the returned JSX: the elements it shows for a value of out
Render(o) ==
    IF ~Truthy(o) THEN {"placeholder"}
    ELSE IF Truthy(Get(o, "error"))
    THEN {"errorTitle", "errorText"}
         \cup (IF Truthy(Get(o, "hint")) THEN {"hint"} ELSE {})
    ELSE {"final_answer"}
         \cup (IF Truthy(Get(o, "detected_topic")) THEN {"detected_topic"} ELSE {})
         \cup (IF Truthy(Get(o, "level_used")) THEN {"level_used"} ELSE {})
         \cup (IF Truthy(Get(o, "method")) THEN {"method"} ELSE {})
         \cup (IF HasLength(Get(o, "steps")) THEN {"steps"} ELSE {})
         \cup (IF Truthy(Get(o, "check")) THEN {"check"} ELSE {})
         \cup (IF HasLength(Get(o, "next_practice")) THEN {"practice"} ELSE {})

\* onChange={(e) => setQ(e.target.value)}
Type(s) ==
    /\ s # q
    /\ q' = s
    /\ UNCHANGED <<level, out, loading, view, asks, sent, relayVars, storeVars>>

\* onChange={(e) => setLevel(e.target.value)}
SelectLevel(l) ==
    /\ l # level
    /\ level' = l
    /\ UNCHANGED <<q, out, loading, view, asks, sent, relayVars, storeVars>>

\* React runs Page() again: the handlers now close over the current cells
Rerender ==
    /\ view # Snapshot(level, q, loading)
    /\ view' = Snapshot(level, q, loading)
    /\ UNCHANGED <<level, q, out, loading, asks, sent, relayVars, storeVars>>

\* async function ask(), up to its first await
ask ==
    IF AskReturnsEarly(view)
    THEN UNCHANGED <<out, loading, asks, sent>>
    ELSE /\ loading' = TRUE
         /\ out' = Null
         /\ asks' = Append(asks, [pc |-> "fetch", body |-> AskBody(view), text |-> <<>>])
         /\ sent' = sent + 1

\* <button onClick={ask} disabled={!canAsk}>
ClickAsk ==
    /\ sent < MaxAsks
    /\ canAsk(view)
    /\ ask
    /\ UNCHANGED <<level, q, view, relayVars, storeVars>>

\* onKeyDown={(e) => e.key === "Enter" && ask()}
PressEnter ==
    /\ sent < MaxAsks
    /\ ask
    /\ UNCHANGED <<level, q, view, relayVars, storeVars>>

Without(seq, i) == SubSeq(seq, 1, i - 1) \o SubSeq(seq, i + 1, Len(seq))

\* await fetch("/api/tutor", ...) rejects: finally { setLoading(false) }
AskFetchRejects(i) ==
    /\ i \in 1..Len(asks)
    /\ asks[i].pc = "fetch"
    /\ loading' = FALSE
    /\ asks' = Without(asks, i)
    /\ UNCHANGED <<level, q, out, view, sent, relayVars, storeVars>>

\* await fetch("/api/tutor", ...) resolves with a response
AskFetchResolves(i, text) ==
    /\ i \in 1..Len(asks)
    /\ asks[i].pc = "fetch"
    /\ asks' = [asks EXCEPT ![i] = [pc |-> "json", body |-> <<>>, text |-> text]]
    /\ UNCHANGED <<level, q, out, loading, view, sent, relayVars, storeVars>>

\* const data = await res.json(); setOut(data); finally { setLoading(false) }
AskResJson(i) ==
    /\ i \in 1..Len(asks)
    /\ asks[i].pc = "json"
    /\ LET r == ReplyJson[asks[i].text] IN
       out' = IF r.ok THEN r.val ELSE out
    /\ loading' = FALSE
    /\ asks' = Without(asks, i)
    /\ UNCHANGED <<level, q, view, sent, relayVars, storeVars>>

PageNext ==
    \/ \E s \in Inputs : Type(s)
    \/ \E l \in Levels : SelectLevel(l)
    \/ Rerender
    \/ ClickAsk
    \/ PressEnter
    \/ \E i \in 1..MaxAsks + 1 : AskFetchRejects(i)
    \/ \E i \in 1..MaxAsks + 1, text \in ReplyTexts : AskFetchResolves(i, text)
    \/ \E i \in 1..MaxAsks + 1 : AskResJson(i)

-----------------------------------------------------------------------------
(* Profile store adapter: getUserProfile, saveUserProfile *)

Fields == {"name", "curriculum", "country"}
FieldValues == {"A", "B"}
StoredUids == {"u1", "u2"}
Uids == {Str(""), Null, Undefined, Str("u1"), Str("u2")}

\* the objects a caller may pass as the profile: any subset of the fields
ProfileArgs == UNION {[F -> FieldValues] : F \in SUBSET Fields}

NoDoc == [exists |-> FALSE, data |-> <<>>]
Doc(d) == [exists |-> TRUE, data |-> d]

\* variant of the uid check: only the empty string is refused
MissingUidEmptyStringOnly(uid) == uid = Str("")

\* if (!uid) throw new Error("Missing uid")
MissingUid(uid) == ~Truthy(uid)

\* { name, curriculum, country } destructured from the argument
Destructure(arg) ==
    [f \in Fields |-> IF f \in DOMAIN arg THEN Str(arg[f]) ELSE Undefined]

\* setDoc validates its data before writing: a field whose value is undefined
\* is refused (the Firestore instance is created without ignoreUndefinedProperties)
SetDocRefuses(data) == \E f \in DOMAIN data : data[f].t = "undefined"

\* setDoc(ref, data, { merge: true }) on a stored snapshot
MergeWrite(snap, data) ==
    Doc([f \in (DOMAIN snap.data) \cup (DOMAIN data) |->
            IF f \in DOMAIN data THEN data[f].str ELSE snap.data[f]])

Snap(d, uid) == IF uid.t = "str" /\ uid.str \in DOMAIN d THEN d[uid.str] ELSE NoDoc

NoCall == [fn |-> "none", uid |-> Undefined, arg |-> <<>>, ops |-> <<>>,
           outcome |-> "none", error |-> "", value |-> NoDoc]

getUserProfile(uid) ==
    /\ prevDocs' = docs
    /\ IF MissingUid(uid)
       THEN lastCall' = [fn |-> "getUserProfile", uid |-> uid, arg |-> <<>>, ops |-> <<>>,
                         outcome |-> "threw", error |-> "Missing uid", value |-> NoDoc]
       ELSE lastCall' = [fn |-> "getUserProfile", uid |-> uid, arg |-> <<>>,
                         ops |-> <<"getDoc">>,
                         outcome |-> "returned", error |-> "", value |-> Snap(docs, uid)]
    /\ UNCHANGED <<docs, relayVars, pageVars>>

saveUserProfile(uid, arg) ==
    /\ prevDocs' = docs
    /\ LET data == Destructure(arg) IN
       IF MissingUid(uid)
       THEN /\ lastCall' = [fn |-> "saveUserProfile", uid |-> uid, arg |-> arg, ops |-> <<>>,
                            outcome |-> "threw", error |-> "Missing uid", value |-> NoDoc]
            /\ UNCHANGED docs
       ELSE IF SetDocRefuses(data)
       THEN /\ lastCall' = [fn |-> "saveUserProfile", uid |-> uid, arg |-> arg, ops |-> <<>>,
                            outcome |-> "threw", error |-> "Unsupported field value: undefined",
                            value |-> NoDoc]
            /\ UNCHANGED docs
       ELSE /\ lastCall' = [fn |-> "saveUserProfile", uid |-> uid, arg |-> arg,
                            ops |-> <<"setDoc">>,
                            outcome |-> "returned", error |-> "", value |-> NoDoc]
            /\ docs' = IF uid.t = "str" /\ uid.str \in DOMAIN docs
                       THEN [docs EXCEPT ![uid.str] = MergeWrite(docs[uid.str], data)]
                       ELSE docs
    /\ UNCHANGED <<relayVars, pageVars>>

StoreNext ==
    \/ \E uid \in Uids : getUserProfile(uid)
    \/ \E uid \in Uids, arg \in ProfileArgs : saveUserProfile(uid, arg)

-----------------------------------------------------------------------------
(* Specifications *)

Init ==
    /\ rpc = "ready" /\ rReq = <<>> /\ rBody = Undefined /\ rCalls = <<>>
    /\ rDown = Pending /\ rData = Undefined /\ rResp = NoResponse
    /\ level = "beginner" /\ q = "" /\ out = Null /\ loading = FALSE
    /\ view = Snapshot("beginner", "", FALSE)
    /\ asks = <<>> /\ sent = 0
    /\ docs = [u \in StoredUids |-> NoDoc]
    /\ lastCall = NoCall
    /\ prevDocs = [u \in StoredUids |-> NoDoc]

Next == RelayNext \/ PageNext \/ StoreNext

Spec      == Init /\ [][Next]_vars
RelaySpec == Init /\ [][RelayNext]_vars
PageSpec  == Init /\ [][PageNext]_vars
StoreSpec == Init /\ [][StoreNext]_vars

\* every request to /api/tutor eventually resolves or rejects, and a received
\* response body is eventually read
Settle ==
    \/ \E i \in 1..MaxAsks + 1 : AskFetchRejects(i)
    \/ \E i \in 1..MaxAsks + 1, text \in ReplyTexts : AskFetchResolves(i, text)
    \/ \E i \in 1..MaxAsks + 1 : AskResJson(i)
PageFairSpec == PageSpec /\ WF_vars(Settle)

-----------------------------------------------------------------------------
(* Properties of the relay endpoint *)

\* the downstream backend answered and its body parsed: POST returned from the try block
RelaySucceeded ==
    /\ rpc = "done"
    /\ rDown.settled = "fulfilled"
    /\ JSONParse(rDown.text).ok

ReqUnparseable  == ~JSONParse(rReq).ok
DownRejected    == rDown.settled = "rejected"
DownUnparseable == rDown.settled = "fulfilled" /\ ~JSONParse(rDown.text).ok
RelayFailed     == rpc = "done" /\ (ReqUnparseable \/ DownRejected \/ DownUnparseable)

\* C1 as stated: when the downstream backend answers with a parseable body and
\* status s, the response to the caller carries status s and the downstream body.
C1_StatusRelayed ==
    RelaySucceeded =>
        /\ rResp.status = rDown.status
        /\ JSONParse(rResp.body) = JSONParse(rDown.text)

\* C1 amended: when the downstream backend answers with a parseable body and
\* status s, for every s the response to the caller carries status 200, whatever
\* s is, and the downstream body.
C1_StatusAlwaysDefault ==
    \A s \in DownStatuses :
        (RelaySucceeded /\ rDown.status = s) =>
            /\ rResp.status = 200
            /\ JSONParse(rResp.body) = JSONParse(rDown.text)

C1_Witness ==
    /\ RelaySucceeded
    /\ rDown.status = 500
    /\ rResp.status = 200
    /\ rResp.body = rDown.text

C3_FixedErrorResponse ==
    /\ RelayFailed =>
          /\ rResp.status = 500
          /\ rResp.body = <<P("{"), S("error"), P(":"),
                            S("Failed to connect to tutor backend"), P("}")>>
    /\ rpc = "done" => rResp # NoResponse
    /\ rpc = "done" => (RelayFailed \/ RelaySucceeded)

C3_Witness ==
    /\ rpc = "done"
    /\ DownUnparseable
    /\ rDown.status = 200
    /\ rResp.status = 500

\* C9: an invocation whose request body parses makes exactly one downstream
\* POST to http://127.0.0.1:8000/ask, with Content-Type application/json and the
\* JSON value the caller sent as body, and never a second one; an invocation
\* whose request body does not parse makes none.
C9_OneDownstreamCall ==
    /\ Len(rCalls) <= 1
    /\ rpc \in {"fetch", "resJson", "done"} =>
          IF JSONParse(rReq).ok
          THEN /\ Len(rCalls) = 1
               /\ rCalls[1].url = "http://127.0.0.1:8000/ask"
               /\ rCalls[1].method = "POST"
               /\ rCalls[1].contentType = "application/json"
               /\ JSONParse(rCalls[1].body) = JSONParse(rReq)
          ELSE rCalls = <<>>

C9_Witness ==
    /\ rpc = "done"
    /\ DownRejected
    /\ Len(rCalls) = 1
    /\ rCalls[1].body = <<P("{"), S("n"), P(":"), N("2"), P(","),
                          S("message"), P(":"), S(""), P("}")>>

-----------------------------------------------------------------------------
(* Properties of the tutor page *)

\* the state of the page's state machine, read off the cells
Phase ==
    IF loading THEN "loading"
    ELSE IF Render(out) = {"placeholder"} THEN "idle"
    ELSE IF Render(out) \subseteq ErrorElements THEN "errored"
    ELSE "displayed"

\* C4 as stated: whatever the submit events, also two that arrive before the
\* page has re-rendered, at most one request to /api/tutor is in flight.
C4_SingleFlight == Len(asks) <= 1

\* C5: a reply object with a non-empty error field is rendered by the error
\* branch (error text, optional hint) and shows none of the solution elements,
\* whatever other fields it has.
C5_ErrorBranchOnly ==
    (out.t = "obj" /\ Get(out, "error").t = "str" /\ Get(out, "error").str # "") =>
        /\ {"errorTitle", "errorText"} \subseteq Render(out)
        /\ Render(out) \subseteq ErrorElements
        /\ Render(out) \cap SolutionElements = {}

C5_Witness ==
    /\ ~loading
    /\ Get(out, "error") = Str("bad input")
    /\ Get(out, "steps") = Arr(<<Str("s1")>>)
    /\ Get(out, "final_answer") = Str("x=2")
    /\ Render(out) = {"errorTitle", "errorText", "hint"}

\* C8 as stated: the page leaves loading only to displayed or to errored,
\* whatever the outcome of the request; it never returns from loading to the
\* idle placeholder.
C8_LoadingLeadsToShown ==
    [][(Phase = "loading" /\ Phase' # "loading") => Phase' \in {"displayed", "errored"}]_vars

\* C10 as stated: every accepted submission is eventually followed by the
\* loading flag being false again, and while a request is in flight out is null.
C10_ClearedWhileInFlight == asks # <<>> => out = Null

\* the liveness half of C10 on its own: under PageFairSpec the loading flag
\* always becomes false again
C10_LoadingEventuallyFalse == loading ~> ~loading

-----------------------------------------------------------------------------
(* Properties of the profile store adapter *)

\* the fields a save supplies laid over the fields stored before it
MergedSuperset(snap, arg) ==
    Doc([f \in (DOMAIN snap.data) \cup (DOMAIN arg) |->
            IF f \in DOMAIN arg THEN arg[f] ELSE snap.data[f]])

\* C6 as stated: after saveUserProfile with a non-empty uid, also one that
\* supplies only some of the fields, the stored profile is the merged superset
\* of what was stored and what the call supplied.
C6_SaveMerges ==
    (lastCall.fn = "saveUserProfile" /\ Truthy(lastCall.uid)) =>
        Snap(docs, lastCall.uid) = MergedSuperset(Snap(prevDocs, lastCall.uid), lastCall.arg)

\* C7: getUserProfile and saveUserProfile called with an empty uid (empty
\* string, null, undefined) fail with "Missing uid" before any document-store
\* operation is issued, and the stored documents are unchanged.
C7_EmptyUidFailsFast ==
    (lastCall.fn # "none" /\ lastCall.uid \in {Str(""), Null, Undefined}) =>
        /\ lastCall.outcome = "threw"
        /\ lastCall.error = "Missing uid"
        /\ lastCall.ops = <<>>
        /\ docs = prevDocs

C7_Witness ==
    /\ lastCall.fn = "saveUserProfile"
    /\ lastCall.uid = Null
    /\ DOMAIN lastCall.arg = Fields
    /\ lastCall.outcome = "threw"
    /\ docs["u1"].exists
    /\ docs = prevDocs

====
